---- MODULE Spec2Model ----
(***************************************************************************)
(* A model of xterm-addon-local-echo: the History ring of src/src/Utils.ts *)
(* and the two LocalEchoAddon classes of src/src/LocalEchoAddon.ts (the    *)
(* "options" class of lines 32-791 and the "classic" class of lines        *)
(* 832-1505), driven by read, readChar, abort, input units and resizes,    *)
(* and the utilities and print methods of both, called by themselves.      *)
(* A string is a sequence of one-character strings.                        *)
(***************************************************************************)
EXTENDS Integers, Sequences, FiniteSets, TLC

\* ------------------------------------------------------------------ bounds

\* Longest edit buffer an input unit may produce.
MaxLen == 3
\* Largest capacity handed to the History constructor in the engine model: Up
\* and Down have two entries to move between.
HistSize == 2
\* Largest capacity handed to the History constructor in the History model.
RingSize == 2
\* Most lines the History model's ring accepts.
MaxPush == 3
\* Most promises a caller may leave behind by calling read/readChar again.
MaxOrphans == 1
\* The completion display cap handed to the constructor.
TabSize == 2
\* The terminal's cursor is followed this many rows above and below the row the
\* prompt was printed on.
MaxRow == 3
\* A char-read is started while the terminal's cursor is at most this many rows
\* below the row the prompt was printed on.
CharRows == 1
\* Completion callbacks registered at most, where completion is what is
\* driven.
MaxHandlers == 2

\* Longest text handed to a utility that is called alone.
MaxText == 4
\* Longest candidate or item, and most of them, handed to a utility that is
\* called alone.
MaxWord == 2
MaxList == 3

\* Most pieces (a character, a line break, an escape sequence) of a text
\* handed to a geometry utility, and the widest terminal it is measured for.
MaxPieces == 4
MaxCols == 3

\* ------------------------------------------------------------- characters

NL == "\n"
CR == "\r"
TAB == "\t"
ESC == "ESC"
DEL == "DEL"
ETX == "ETX"
SP == " "
BSL == "\\"

\* charCodeAt(0) < 32 || charCodeAt(0) === 0x7f, ESC excluded (tested first).
IsControl(c) == c \in {NL, CR, TAB, DEL, ETX}

IsSpace(c) == c \in {SP, TAB, NL, CR}

\* \w of a JavaScript regular expression.
IsWordChar(c) == c \in {"a", "b", "l", "s", "y", "n", "x", "0", "1", "2", "3", "_"}


Min(a, b) == IF a < b THEN a ELSE b
Max(a, b) == IF a > b THEN a ELSE b

\* ---------------------------------------------------------------- strings

\* String.prototype.substring(a, b): both ends clamped to [0, length], swapped
\* when out of order.
Substring(s, a, b) ==
  LET ca == Max(0, Min(a, Len(s)))
      cb == Max(0, Min(b, Len(s)))
      lo == Min(ca, cb)
      hi == Max(ca, cb)
  IN SubSeq(s, lo + 1, hi)

\* String.prototype.substring(a).
SubstringFrom(s, a) == Substring(s, a, Len(s))

\* String.prototype.startsWith.
StartsWith(s, p) == Len(p) <= Len(s) /\ SubSeq(s, 1, Len(p)) = p

\* String.prototype.endsWith.
EndsWith(s, p) == Len(p) <= Len(s) /\ SubSeq(s, Len(s) - Len(p) + 1, Len(s)) = p

\* String.prototype.trim() === "".
TrimsToEmpty(s) == \A i \in 1..Len(s) : IsSpace(s[i])

\* (s.match(/c/g) || []).length
CountChar(s, c) == Cardinality({i \in 1..Len(s) : s[i] = c})

RECURSIVE Flatten(_)
\* The concatenation of a sequence of strings.
Flatten(ss) == IF ss = <<>> THEN <<>> ELSE Head(ss) \o Flatten(Tail(ss))

\* ------------------------------------------------ escape sequences (strip)

IsCsiParam(c) == c \in {"0", "1", "2", "3", ";"}

RECURSIVE CsiEnd(_, _)
\* The index of the final character of the CSI sequence whose parameters start
\* at i, or 0 when the text ends first.
CsiEnd(s, i) ==
  IF i > Len(s) THEN 0
  ELSE IF IsCsiParam(s[i]) THEN CsiEnd(s, i + 1)
  ELSE i

RECURSIVE StripFrom(_, _)
StripFrom(s, i) ==
  IF i > Len(s) THEN <<>>
  ELSE IF s[i] = ESC /\ i < Len(s) /\ s[i + 1] = "[" /\ CsiEnd(s, i + 2) > 0
       THEN StripFrom(s, CsiEnd(s, i + 2) + 1)
  ELSE <<s[i]>> \o StripFrom(s, i + 1)

\* s.replace(ansiRegex(), ""): every ESC [ params final sequence removed.
StripAnsi(s) == StripFrom(s, 1)

\* --------------------------------------------------------------- geometry

RECURSIVE ColRowLoop(_, _, _, _, _, _)
ColRowLoop(input, offset, maxCols, i, row, col) ==
  IF i >= offset THEN [row |-> row, col |-> col]
  ELSE IF i < Len(input) /\ input[i + 1] = NL
       THEN ColRowLoop(input, offset, maxCols, i + 1, row + 1, 0)
  ELSE IF col + 1 = maxCols
       THEN ColRowLoop(input, offset, maxCols, i + 1, row + 1, 0)
  ELSE ColRowLoop(input, offset, maxCols, i + 1, row, col + 1)

\* Utils.offsetToColRow: the cursor advanced one character at a time.
offsetToColRow(input, offset, maxCols) == ColRowLoop(input, offset, maxCols, 0, 0, 0)

\* Utils.countLines.
countLines(input, maxCols) ==
  offsetToColRow(input, Len(StripAnsi(input)), maxCols).row + 1

\* getColRow of the options class (the Utils listing of the README that
\* exports the names the class imports).
getColRow(input, offset, cols) == ColRowLoop(input, offset, cols, 0, 0, 0)

\* getLineCount of the options class.
getLineCount(input, cols) == getColRow(input, Len(StripAnsi(input)), cols).row + 1

RECURSIVE VariantLoop(_, _, _, _, _, _)
VariantLoop(input, offset, cols, i, row, col) ==
  IF i >= offset THEN [row |-> row, col |-> col]
  ELSE IF i < Len(input) /\ input[i + 1] = NL
       THEN VariantLoop(input, offset, cols, i + 1, row + 1, 0)
  ELSE IF col + 1 = cols
       THEN VariantLoop(input, offset, cols, i + 1, row + (row + 1), 0)
  ELSE VariantLoop(input, offset, cols, i + 1, row, col + 1)

\* getColRow of the first Utils listing of the README, whose wrap is
\* `row += row + 1`, and the getLineCount that calls it.
getColRowVariant(input, offset, cols) == VariantLoop(input, offset, cols, 0, 0, 0)

getLineCountVariant(input, cols) ==
  getColRowVariant(input, Len(StripAnsi(input)), cols).row + 1

\* ------------------------------------------------------------------ words

\* The indices (from 0) at which /\w+/g finds a word.
WordStarts(input) ==
  {i \in 0..(Len(input) - 1) :
     IsWordChar(input[i + 1]) /\ (i = 0 \/ ~IsWordChar(input[i]))}

\* Utils.getOffsetWord. `find(...) || d` also takes d when the index found is 0.
getOffsetWord(input, offset, rtl) ==
  IF rtl
  THEN LET below == {w \in WordStarts(input) : w < offset}
       IN IF below = {} THEN 0 ELSE CHOOSE w \in below : \A v \in below : v <= w
  ELSE LET above == {w \in WordStarts(input) : w > offset}
       IN IF above = {} THEN Len(input) ELSE CHOOSE w \in above : \A v \in above : w <= v

\* getWord of the options class.
getWord(input, offset, rtl) == getOffsetWord(input, offset, rtl)

\* --------------------------------------------------------- incomplete input

RECURSIVE LastSegmentFrom(_, _, _)
\* input.split(/(\|\||\||&&)/g).pop(): the text after the last operator match,
\* scanning left to right with i the next index (from 1) and start the first
\* index of the current segment.
LastSegmentFrom(s, i, start) ==
  IF i > Len(s) THEN SubSeq(s, start, Len(s))
  ELSE IF i < Len(s) /\ s[i] = "|" /\ s[i + 1] = "|" THEN LastSegmentFrom(s, i + 2, i + 2)
  ELSE IF s[i] = "|" THEN LastSegmentFrom(s, i + 1, i + 1)
  ELSE IF i < Len(s) /\ s[i] = "&" /\ s[i + 1] = "&" THEN LastSegmentFrom(s, i + 2, i + 2)
  ELSE LastSegmentFrom(s, i + 1, start)

LastSegment(s) == LastSegmentFrom(s, 1, 1)

\* Utils.isIncompleteInput.
isIncompleteInput(input) ==
  IF TrimsToEmpty(input) THEN FALSE
  ELSE IF CountChar(input, "'") % 2 # 0 THEN TRUE
  ELSE IF CountChar(input, "\"") % 2 # 0 THEN TRUE
  ELSE IF TrimsToEmpty(LastSegment(input)) THEN TRUE
  ELSE IF EndsWith(input, <<BSL>>) /\ ~EndsWith(input, <<BSL, BSL>>) THEN TRUE
  ELSE FALSE

\* hasIncompleteChars of the options class.
hasIncompleteChars(input) ==
  IF ~TrimsToEmpty(input)
  THEN IF CountChar(input, "'") % 2 # 0 THEN TRUE
       ELSE IF CountChar(input, "\"") % 2 # 0 THEN TRUE
       ELSE IF TrimsToEmpty(LastSegment(input)) THEN TRUE
       ELSE IF EndsWith(input, <<BSL>>) /\ ~EndsWith(input, <<BSL, BSL>>) THEN TRUE
       ELSE FALSE
  ELSE FALSE

\* Utils.hasTailingWhitespace: /[^\\][ \t]$/m, `$` also matching before a
\* line break.
hasTailingWhitespace(input) ==
  \E i \in 2..Len(input) :
     /\ input[i] \in {SP, TAB}
     /\ input[i - 1] # BSL
     /\ (i = Len(input) \/ input[i + 1] \in {NL, CR})

\* ---------------------------------------------------------------- History

\* What reading items[i] gives when i is no index of items.
Undefined == <<"undefined">>

\* items[i] of a JavaScript array, i counted from 0.
ItemAt(items, i) == IF i >= 0 /\ i < Len(items) THEN items[i + 1] ELSE Undefined

\* History.rewind.
HistRewind(h) == [h EXCEPT !.index = Len(h.items)]

\* History.getPrev: the ring after the call; the value returned is
\* ItemAt(items, index) of it.
HistGetPrev(h) == [h EXCEPT !.index = Max(0, h.index - 1)]

\* A getNext that steps past the end of the ring.
HistGetNextBlind(h) == [h EXCEPT !.index = h.index + 1]

\* History.getNext.
HistGetNext(h) == [h EXCEPT !.index = Min(Len(h.items), h.index + 1)]

\* A push that drops the entry just appended instead of the oldest one.
EvictNewest(items, itemsMax) ==
  IF Len(items) > itemsMax THEN SubSeq(items, 1, Len(items) - 1) ELSE items

\* if (items.length > itemsMax) items.shift(), the tail of History.push.
Evict(items, itemsMax) ==
  IF Len(items) > itemsMax THEN Tail(items) ELSE items

\* History.push.
HistPush(h, input) ==
  IF TrimsToEmpty(input) THEN h
  ELSE LET prevItem == ItemAt(h.items, Len(h.items) - 1)
           items == IF input # prevItem
                    THEN Evict(Append(h.items, input), h.itemsMax)
                    ELSE h.items
       IN HistRewind([h EXCEPT !.items = items])

\* new History(size).
HistNew(size) == [items |-> <<>>, index |-> 0, itemsMax |-> size]

\* --------------------------------------------------------------- terminal

\* What terminal.write receives: characters, and these control sequences.
CUU == "ESC[A"
CUD == "ESC[B"
CUF == "ESC[C"
CUB == "ESC[D"
CNL == "ESC[E"
CPL == "ESC[F"
EL == "ESC[K"
EL2 == "ESC[2K"

\* The host terminal's cursor after one written token: row counted from the
\* first row of the prompt, col from 0, wrap set while the cursor waits on the
\* last column of a full row (xterm wraps only when the next character comes).
TermStep(t, tok, width) ==
  CASE tok = CR  -> [row |-> t.row, col |-> 0, wrap |-> FALSE]
    [] tok = NL  -> [row |-> t.row + 1, col |-> t.col, wrap |-> FALSE]
    [] tok = CUU -> [row |-> t.row - 1, col |-> t.col, wrap |-> FALSE]
    [] tok = CUD -> [row |-> t.row + 1, col |-> t.col, wrap |-> FALSE]
    [] tok = CUF -> [row |-> t.row, col |-> Min(t.col + 1, width - 1), wrap |-> FALSE]
    [] tok = CUB -> [row |-> t.row, col |-> Max(t.col - 1, 0), wrap |-> FALSE]
    [] tok = CNL -> [row |-> t.row + 1, col |-> 0, wrap |-> FALSE]
    [] tok = CPL -> [row |-> t.row - 1, col |-> 0, wrap |-> FALSE]
    [] tok \in {EL, EL2} -> t
    [] OTHER ->
         LET r == IF t.wrap THEN t.row + 1 ELSE t.row
             c == IF t.wrap THEN 0 ELSE t.col
         IN IF c + 1 >= width
            THEN [row |-> r, col |-> c, wrap |-> TRUE]
            ELSE [row |-> r, col |-> c + 1, wrap |-> FALSE]

RECURSIVE TermWrite(_, _, _)
\* The terminal's cursor after terminal.write(toks).
TermWrite(t, toks, width) ==
  IF toks = <<>> THEN t
  ELSE TermWrite(TermStep(t, Head(toks), width), Tail(toks), width)

TermHome == [row |-> 0, col |-> 0, wrap |-> FALSE]

\* n copies of a token sequence (a `for` loop of writes; none when n <= 0).
RECURSIVE Times(_, _)
Times(n, toks) == IF n <= 0 THEN <<>> ELSE toks \o Times(n - 1, toks)

RECURSIVE CollapseBreaks(_, _)
\* output.replace(/[\r\n]+/g, "\n").replace(/\n/g, "\r\n"), from index i.
CollapseBreaks(s, i) ==
  IF i > Len(s) THEN <<>>
  ELSE IF s[i] \in {CR, NL}
       THEN IF i > 1 /\ s[i - 1] \in {CR, NL}
            THEN CollapseBreaks(s, i + 1)
            ELSE <<CR, NL>> \o CollapseBreaks(s, i + 1)
  ELSE <<s[i]>> \o CollapseBreaks(s, i + 1)

\* LocalEchoAddon.print: what it writes.
print(output) == CollapseBreaks(output, 1)

\* LocalEchoAddon.println.
println(output) == print(output \o <<NL>>)

\* ------------------------------------------------------------- completion

\* A control operator in the token list of shell-quote's parse: an object,
\* no string.
OpTok(o) == <<"{op}">> \o o
IsOp(t) == t # <<>> /\ t[1] = "{op}"

Flush(cur) == IF cur = <<>> THEN <<>> ELSE <<cur>>

RECURSIVE ParseFrom(_, _, _)
\* parse(input) of shell-quote on words, blanks and the operators | || & &&:
\* blanks separate, an operator is a token of its own.
ParseFrom(s, i, cur) ==
  IF i > Len(s) THEN Flush(cur)
  ELSE IF IsSpace(s[i]) THEN Flush(cur) \o ParseFrom(s, i + 1, <<>>)
  ELSE IF i < Len(s) /\ s[i] \in {"|", "&"} /\ s[i + 1] = s[i]
       THEN Flush(cur) \o <<OpTok(<<s[i], s[i]>>)>> \o ParseFrom(s, i + 2, <<>>)
  ELSE IF s[i] \in {"|", "&"}
       THEN Flush(cur) \o <<OpTok(<<s[i]>>)>> \o ParseFrom(s, i + 1, <<>>)
  ELSE ParseFrom(s, i + 1, Append(cur, s[i]))

parse(input) == ParseFrom(input, 1, <<>>)

\* The completion callbacks a caller may register: what each returns for
\* (index, tokens), or Throws.
Throws == <<<<"{throws}">>>>
\* A callback that returns a promise of its candidates instead of the array,
\* and the promise as an element of the candidate list.
Pending == <<<<"{pending}">>>>
PromiseObj == <<"{promise}">>
Provider(fn, index, tokens) ==
  CASE fn = "cmd"  -> IF index = 0 THEN <<<<"a", "a">>, <<"a">>, <<"a", "a", "a">>>>
                       ELSE <<<<"a">>>>
    [] fn = "one"  -> <<<<"a", "b">>>>
    [] fn = "opt"  -> <<<<"a", "b", "b">>, <<"a", "b", "a">>>>
    [] fn = "boom" -> Throws
    [] fn = "later" -> Pending
    [] OTHER -> <<>>

\* A collection that gives up at the first callback that throws.
RECURSIVE CollectFromStops(_, _, _)
CollectFromStops(callbacks, index, tokens) ==
  IF callbacks = <<>> THEN <<>>
  ELSE LET got == Provider(Head(callbacks), index, tokens)
       IN IF got = Throws THEN <<>>
          ELSE (IF got = Pending THEN <<PromiseObj>> ELSE got)
                 \o CollectFromStops(Tail(callbacks), index, tokens)

RECURSIVE CollectFrom(_, _, _)
\* callbacks.reduce(...): each callback's candidates appended in order, a
\* callback that throws adding none; concat appends a value that is no array,
\* a promise, as one element.
CollectFrom(callbacks, index, tokens) ==
  IF callbacks = <<>> THEN <<>>
  ELSE LET got == Provider(Head(callbacks), index, tokens)
       IN (IF got = Throws THEN <<>>
           ELSE IF got = Pending THEN <<PromiseObj>>
           ELSE got)
            \o CollectFrom(Tail(callbacks), index, tokens)

\* txt.startsWith(expr): an operator object never is a prefix.
CandidateMatches(txt, expr) == ~IsOp(expr) /\ StartsWith(txt, expr)

\* What txt.startsWith(expr) throws out of the filter callback when txt is no
\* string: a promise has no startsWith.
TypeError == <<<<"{TypeError}">>>>

\* all.filter((txt) => txt.startsWith(expr)).
Filter(all, expr) ==
  LET F[i \in 0..Len(all)] ==
        IF i = 0 THEN <<>>
        ELSE IF CandidateMatches(all[i], expr) THEN Append(F[i - 1], all[i])
        ELSE F[i - 1]
  IN F[Len(all)]

\* Utils.collectAutocompleteCandidates.
collectAutocompleteCandidates(callbacks, input) ==
  LET tokens == parse(input)
      last == Len(tokens) - 1
      blank == TrimsToEmpty(input)
      tail == hasTailingWhitespace(input)
      index == IF blank THEN 0 ELSE IF tail THEN last + 1 ELSE last
      expr == IF blank \/ tail \/ tokens = <<>> THEN <<>> ELSE tokens[last + 1]
      all == CollectFrom(callbacks, index, tokens)
  IN IF \E i \in 1..Len(all) : all[i] = PromiseObj THEN TypeError
     ELSE Filter(all, expr)

\* Utils.getLastToken; an operator object stands for itself.
getLastToken(input) ==
  IF TrimsToEmpty(input) THEN <<>>
  ELSE IF hasTailingWhitespace(input) THEN <<>>
  ELSE LET tokens == parse(input)
       IN IF tokens = <<>> THEN <<>> ELSE tokens[Len(tokens)]

\* getLastFragment of the options class.
getLastFragment(input) ==
  IF TrimsToEmpty(input) \/ hasTailingWhitespace(input) THEN <<>>
  ELSE LET argv == parse(input)
       IN IF argv = <<>> THEN <<>> ELSE argv[Len(argv)]

\* lastToken.length handed to substring: undefined (an object's) counts as 0.
TokenLength(t) == IF IsOp(t) THEN 0 ELSE Len(t)

RECURSIVE getSharedFragment(_, _)
\* Utils.getSharedFragment; Undefined stands for null.
getSharedFragment(fragment, candidates) ==
  IF Len(fragment) >= Len(candidates[1]) THEN fragment
  ELSE LET grown == fragment \o Substring(candidates[1], Len(fragment), Len(fragment) + 1)
           wrong == {i \in 1..Len(candidates) : ~StartsWith(candidates[i], fragment)}
           short == {i \in 1..Len(candidates) : ~StartsWith(candidates[i], grown)}
           first == CHOOSE i \in wrong \cup short : \A j \in wrong \cup short : i <= j
       IN IF wrong \cup short = {} THEN getSharedFragment(grown, candidates)
          ELSE IF first \in wrong THEN Undefined
          ELSE fragment

\* The order of two strings by UTF-16 code units, as Array.prototype.sort
\* compares them.
CharRank(c) ==
  CASE c = SP -> 32 [] c = "a" -> 97 [] c = "b" -> 98 [] c = "l" -> 108
    [] c = "p" -> 112 [] c = "s" -> 115 [] c = "|" -> 124 [] OTHER -> 200

RECURSIVE Before(_, _)
Before(a, b) ==
  IF a = <<>> THEN b # <<>>
  ELSE IF b = <<>> THEN FALSE
  ELSE IF Head(a) = Head(b) THEN Before(Tail(a), Tail(b))
  ELSE CharRank(Head(a)) < CharRank(Head(b))

RECURSIVE sortCandidates(_)
\* candidates.sort(): the head inserted into the sorted tail.
sortCandidates(seq) ==
  IF seq = <<>> THEN <<>>
  ELSE LET rest == sortCandidates(Tail(seq))
           k == Cardinality({i \in 1..Len(rest) : Before(rest[i], Head(seq))})
       IN SubSeq(rest, 1, k) \o <<Head(seq)>> \o SubSeq(rest, k + 1, Len(rest))

\* getTabSuggestions of the options class: the collection of the classic
\* class, sorted before it is returned.
getTabSuggestions(callbacks, input) ==
  LET suggestions == collectAutocompleteCandidates(callbacks, input)
  IN IF suggestions = TypeError THEN TypeError ELSE sortCandidates(suggestions)

\* str.padEnd(n, " ").
PadEnd(str, n) == str \o [i \in 1..Max(0, n - Len(str)) |-> SP]

RECURSIVE MaxWidth(_)
MaxWidth(items) == IF items = <<>> THEN 0 ELSE Max(Len(Head(items)), MaxWidth(Tail(items)))

RECURSIVE InlineRows(_, _, _, _, _, _)
InlineRows(items, i, row, rows, cols, w) ==
  IF row >= rows THEN <<>>
  ELSE LET n == Min(cols, Len(items) - i)
           cells == [k \in 1..Max(0, n) |-> PadEnd(items[i + k], w)]
       IN println(Flatten(cells)) \o InlineRows(items, i + Max(0, n), row + 1, rows, cols, w)

\* What a print loop that never ends leaves for its caller: no return.
Hangs == <<"{hangs}">>

\* LocalEchoAddon.printlsInline with its default padding: what it writes.
\* `x || 1` takes 1 when x is 0; a division by a width of 0 is Infinity, and
\* neither loop ends.
printlsInline(items, termCols) ==
  IF items = <<>> THEN <<>>
  ELSE LET width == MaxWidth(items)
           c == termCols \div width
           r == Len(items) \div width
           cols == IF c = 0 THEN 1 ELSE c
           rows == IF r = 0 THEN 1 ELSE r
       IN IF width = 0 THEN Hangs
          ELSE InlineRows(items, 0, 0, rows, cols, width + 3)

\* LocalEchoAddon.printWide with its default padding: what it writes. With
\* no column, Math.ceil(items.length / 0) is Infinity and the row loop never
\* ends.
printWide(items, termCols) ==
  IF items = <<>> THEN println(<<>>)
  ELSE LET itemWidth == MaxWidth(items) + 2
           wideCols == termCols \div itemWidth
           wideRows == (Len(items) + wideCols - 1) \div wideCols
       IN IF wideCols = 0 THEN Hangs
          ELSE InlineRows(items, 0, 0, wideRows, wideCols, itemWidth)

\* ----------------------------------------------------------------- engine

VARIABLES
  variant,             \* which LocalEchoAddon class runs: "options" or "classic"
  incompleteEnabled,   \* options.incompleteEnabled (options class)
  tabCompleteHandlers, \* tabCompleteHandlers / autocompleteHandlers
  active,
  activePrompt,
  activePromptChar,    \* activePromptChar / activeCharPrompt
  cursor,
  input,
  terminalSize,
  history,             \* the History object: [items, index, itemsMax]
  term,                \* the host terminal's cursor
  orphans,             \* promises returned, unsettled and held by no slot
  microtask,           \* the promise reaction queued by the last resolve
  ev,                  \* what the last operation did
  accepted,            \* History model: the lines push has accepted, in order
  strings,             \* utility models: the list handed to the last call
  returned             \* History model: what the last getPrev/getNext returned

vars == <<variant, incompleteEnabled, tabCompleteHandlers, active, activePrompt,
          activePromptChar, cursor, input, terminalSize, history, term, orphans,
          microtask, ev, accepted, strings, returned>>

\* activePrompt = null.
NullPrompt == [kind |-> "null"]
\* No reaction queued; no promise settled.
NoTask == [tag |-> "none"]
NoSettle == [how |-> "none"]
\* A char prompt's `then`: nothing, or the resume of printAndRestartPrompt.
NoThen == [tag |-> "none"]

\* The mutable state a handler works on.
Machine ==
  [active |-> active, activePrompt |-> activePrompt,
   activePromptChar |-> activePromptChar, cursor |-> cursor, input |-> input,
   terminalSize |-> terminalSize, history |-> history, term |-> term,
   orphans |-> orphans, microtask |-> NoTask, out |-> <<>>,
   line |-> NoSettle, char |-> NoSettle, rendered |-> FALSE, threw |-> FALSE]

Cols(m) == m.terminalSize.cols

\* terminal.write(toks).
Write(m, toks) ==
  [m EXCEPT !.term = TermWrite(@, toks, Cols(m)), !.out = @ \o toks]

\* Rows are counted from the row on which the prompt's text starts.
StartPrompt(m) == [m EXCEPT !.term.row = 0]

Ps1(p) == IF p.kind = "null" THEN <<>> ELSE p.ps1
Ps2(p) == IF p.kind = "null" THEN <<>> ELSE p.ps2

RECURSIVE InjectPs2(_, _)
\* input.replace(/\n/g, "\n" + ps2)
InjectPs2(s, ps2) ==
  IF s = <<>> THEN <<>>
  ELSE IF Head(s) = NL THEN <<NL>> \o ps2 \o InjectPs2(Tail(s), ps2)
  ELSE <<Head(s)>> \o InjectPs2(Tail(s), ps2)

\* applyPrompt / applyPrompts.
applyPrompts(p, str) == Ps1(p) \o InjectPs2(str, Ps2(p))

\* applyPromptOffset.
applyPromptOffset(p, str, offset) ==
  Len(StripAnsi(applyPrompts(p, Substring(str, 0, offset))))

\* The geometry functions the running class imports.
ColRow(str, offset, cols) ==
  IF variant = "options" THEN getColRow(str, offset, cols)
  ELSE offsetToColRow(str, offset, cols)

\* clearInput of the options class.
clearInputOpt(m) ==
  LET inp == applyPrompts(m.activePrompt, m.input)
      offset == applyPromptOffset(m.activePrompt, m.input, Len(inp))
      row == getColRow(inp, offset, Cols(m)).row
      lines == getLineCount(inp, Cols(m))
      linesDown == lines - (row + 1)
  IN Write(m, Times(linesDown, <<CNL>>) \o <<CR, EL>> \o Times(lines - 1, <<CPL, EL>>))

\* clearInput of the classic class.
clearInput(m) ==
  LET currentPrompt == applyPrompts(m.activePrompt, m.input)
      allRows == countLines(currentPrompt, Cols(m))
      promptCursor == applyPromptOffset(m.activePrompt, m.input, m.cursor)
      row == offsetToColRow(currentPrompt, promptCursor, Cols(m)).row
      moveRows == allRows - row - 1
  IN Write(m, Times(0 - moveRows, <<EL2, CPL>>) \o Times(moveRows, <<CNL>>)
                \o <<CR, EL>> \o Times(allRows - 1, <<CPL, EL>>))

Clear(m) == IF variant = "options" THEN clearInputOpt(m) ELSE clearInput(m)

\* if (row !== 0 && col === 0) terminal.write("\x1B[E")
WrapFix(row, col) == IF row # 0 /\ col = 0 THEN <<CNL>> ELSE <<>>

\* The cursor placement that ends writeInput (opt) and setInput, each with the
\* position and line count functions of its class.
PlaceCursor(m, newInput, opt) ==
  LET p == m.activePrompt
      c == IF m.cursor > Len(newInput) THEN Len(newInput) ELSE m.cursor
      newPrompt == applyPrompts(p, newInput)
      newCursor == applyPromptOffset(p, newInput, c)
      at == IF opt THEN getColRow(newPrompt, newCursor, Cols(m))
            ELSE offsetToColRow(newPrompt, newCursor, Cols(m))
      newLines == IF opt THEN getLineCount(newPrompt, Cols(m))
                  ELSE countLines(newPrompt, Cols(m))
      moveUpRows == newLines - at.row - 1
      m1 == Write(StartPrompt(m), print(newPrompt))
      m2 == Write(m1, WrapFix(at.row, at.col) \o <<CR>> \o Times(moveUpRows, <<CPL>>)
                        \o Times(at.col, <<CUF>>))
  IN [m2 EXCEPT !.cursor = c, !.input = newInput, !.rendered = TRUE]

\* writeInput of the options class.
writeInput(m, newInput, clear) ==
  PlaceCursor(IF clear THEN clearInputOpt(m) ELSE m, newInput, TRUE)

\* setInput of the classic class.
setInput(m, newInput, clear) ==
  PlaceCursor(IF clear THEN clearInput(m) ELSE m, newInput, FALSE)

Render(m, newInput, clear) ==
  IF variant = "options" THEN writeInput(m, newInput, clear)
  ELSE setInput(m, newInput, clear)

\* setCursor (the same in both classes).
setCursor(m, requested) ==
  LET newCursor == Max(0, Min(requested, Len(m.input)))
      p == m.activePrompt
      inputWithPrompt == applyPrompts(p, m.input)
      prev == ColRow(inputWithPrompt, applyPromptOffset(p, m.input, m.cursor), Cols(m))
      new == ColRow(inputWithPrompt, applyPromptOffset(p, m.input, newCursor), Cols(m))
      vert == IF new.row > prev.row THEN Times(new.row - prev.row, <<CUD>>)
              ELSE Times(prev.row - new.row, <<CUU>>)
      horiz == IF new.col > prev.col THEN Times(new.col - prev.col, <<CUF>>)
               ELSE Times(prev.col - new.col, <<CUB>>)
  IN [Write(m, vert \o horiz) EXCEPT !.cursor = newCursor]

\* handleCursorInsert of the options class: the cursor moves first.
handleCursorInsertOpt(m, data) ==
  LET c == m.cursor + Len(data)
      insert == Substring(m.input, 0, c) \o data \o SubstringFrom(m.input, c)
  IN writeInput([m EXCEPT !.cursor = c], insert, TRUE)

\* handleCursorInsert of the classic class.
handleCursorInsert(m, data) ==
  LET newInput == Substring(m.input, 0, m.cursor) \o data \o SubstringFrom(m.input, m.cursor)
  IN setInput([m EXCEPT !.cursor = m.cursor + Len(data)], newInput, TRUE)

Insert(m, data) ==
  IF variant = "options" THEN handleCursorInsertOpt(m, data)
  ELSE handleCursorInsert(m, data)

\* An erase that steps back from the start of the buffer, too.
handleCursorEraseBlind(m, bksp) ==
  LET c == IF bksp THEN m.cursor - 1 ELSE m.cursor
      erase == Substring(m.input, 0, c) \o SubstringFrom(m.input, c + 1)
  IN writeInput([m EXCEPT !.cursor = c], erase, TRUE)

\* handleCursorErase of the options class.
handleCursorEraseOpt(m, bksp) ==
  LET c == IF bksp /\ m.cursor > 0 THEN m.cursor - 1 ELSE m.cursor
      erase == Substring(m.input, 0, c) \o SubstringFrom(m.input, c + 1)
  IN writeInput([m EXCEPT !.cursor = c], erase, TRUE)

\* handleCursorErase of the classic class.
handleCursorErase(m, backspace) ==
  IF backspace
  THEN IF m.cursor <= 0 THEN m
       ELSE LET newInput == Substring(m.input, 0, m.cursor - 1)
                              \o SubstringFrom(m.input, m.cursor)
                m1 == clearInput(m)
            IN setInput([m1 EXCEPT !.cursor = m.cursor - 1], newInput, FALSE)
  ELSE setInput(m, Substring(m.input, 0, m.cursor)
                     \o SubstringFrom(m.input, m.cursor + 1), TRUE)

Erase(m, bksp) ==
  IF variant = "options" THEN handleCursorEraseOpt(m, bksp)
  ELSE handleCursorErase(m, bksp)

\* A slot overwritten while it holds a promise leaves that promise behind.
Orphaned(m, slot, kind) ==
  IF slot.kind = "null" THEN m
  ELSE [m EXCEPT !.orphans[kind] = @ + 1]

\* read(ps1, ps2): the promise's executor.
read(m, ps1, ps2) ==
  LET m1 == Write([m EXCEPT !.term = TermHome], ps1)
  IN [Orphaned(m1, m.activePrompt, "line") EXCEPT
        !.active = TRUE,
        !.activePrompt = [kind |-> "line", ps1 |-> ps1, ps2 |-> ps2],
        !.cursor = 0,
        !.input = <<>>]

\* readChar(ps1): the promise's executor; then is what the caller chained.
readChar(m, ps1, then) ==
  [Orphaned(Write(m, ps1), m.activePromptChar, "char") EXCEPT
     !.activePromptChar = [kind |-> "char", ps1 |-> ps1, ps2 |-> <<>>, then |-> then]]

\* An abort that forgets the char-read.
abortLineOnly(m, reason) ==
  LET hadLine == m.activePrompt.kind # "null"
      m1 == IF hadLine THEN Write(m, <<CR, NL>>) ELSE m
  IN [m1 EXCEPT !.line = IF hadLine THEN [how |-> "reject", val |-> reason] ELSE @,
                !.activePrompt = NullPrompt,
                !.active = FALSE,
                !.term = TermHome]

\* readAbort / abortRead.
abortRead(m, reason) ==
  LET hadLine == m.activePrompt.kind # "null"
      hadChar == m.activePromptChar.kind # "null"
      m1 == IF hadLine \/ hadChar THEN Write(m, <<CR, NL>>) ELSE m
  IN [m1 EXCEPT !.line = IF hadLine THEN [how |-> "reject", val |-> reason] ELSE @,
                !.activePrompt = NullPrompt,
                !.char = IF hadChar THEN [how |-> "reject", val |-> reason] ELSE @,
                !.activePromptChar = NullPrompt,
                !.active = FALSE,
                !.term = TermHome]

\* handleReadComplete (the same in both classes).
handleReadComplete(m) ==
  LET m1 == [m EXCEPT !.history = HistPush(@, m.input)]
      m2 == IF m1.activePrompt.kind # "null"
            THEN [m1 EXCEPT !.line = [how |-> "resolve", val |-> m.input],
                            !.activePrompt = NullPrompt]
            ELSE m1
  IN [Write(m2, <<CR, NL>>) EXCEPT !.active = FALSE, !.term = TermHome]

\* The resume of printAndRestartPrompt.
resume(m, savedCursor) == Render([m EXCEPT !.cursor = savedCursor], m.input, TRUE)

\* The question the confirmation writes, "Display all N possibilities? (y or n)".
Question == <<"?">>

\* printAndRestartPrompt: with ask, the callback is the confirmation's readChar
\* and resume waits for its promise; without, the callback prints the list and
\* resume runs at once.
printAndRestartPrompt(m, suggestions, ask) ==
  LET m1 == Write(setCursor(m, Len(m.input)), <<CR, NL>>)
  IN IF ask
     THEN readChar(m1, Question,
                   [tag |-> "confirm", cursor |-> m.cursor, list |-> suggestions])
     ELSE resume(Write(m1, printlsInline(suggestions, Cols(m))), m.cursor)

\* The Tab case of handleData (the same in both classes but for the names).
\* An error that escapes the collection ends the handler where it is.
handleTab(m) ==
  IF tabCompleteHandlers = <<>> THEN Insert(m, <<SP, SP, SP, SP>>)
  ELSE LET fragment == Substring(m.input, 0, m.cursor)
           collected == IF variant = "options"
                        THEN getTabSuggestions(tabCompleteHandlers, fragment)
                        ELSE collectAutocompleteCandidates(tabCompleteHandlers,
                                                           fragment)
           suggestions == sortCandidates(collected)
           lastToken == IF variant = "options" THEN getLastFragment(fragment)
                        ELSE getLastToken(fragment)
       IN IF collected = TypeError THEN [m EXCEPT !.threw = TRUE]
          ELSE IF suggestions = <<>>
          THEN IF hasTailingWhitespace(fragment) THEN m ELSE Insert(m, <<SP>>)
          ELSE IF Len(suggestions) = 1
          THEN Insert(m, SubstringFrom(suggestions[1], TokenLength(lastToken))
                           \o <<SP>>)
          ELSE IF Len(suggestions) <= TabSize
          THEN LET shared == getSharedFragment(fragment, suggestions)
                   m1 == IF shared # Undefined /\ shared # <<>>
                         THEN Insert(m, SubstringFrom(shared, TokenLength(lastToken)))
                         ELSE m
               IN printAndRestartPrompt(m1, suggestions, FALSE)
          ELSE printAndRestartPrompt(m, suggestions, TRUE)

\* A Ctrl+C that leaves the history where the browsing left it.
handleCtrlCBrowsing(m) ==
  LET m1 == Write(setCursor(m, Len(m.input)), <<"^", "C", CR, NL>>)
      m2 == Write(StartPrompt(m1), Ps1(m.activePrompt))
  IN [m2 EXCEPT !.cursor = 0, !.input = <<>>]

\* The Ctrl+C case of handleData.
handleCtrlC(m) ==
  LET m1 == Write(setCursor(m, Len(m.input)), <<"^", "C", CR, NL>>)
      m2 == Write(StartPrompt(m1), Ps1(m.activePrompt))
  IN [m2 EXCEPT !.cursor = 0, !.input = <<>>, !.history = HistRewind(@)]

\* The Up and Down cases of handleData.
handleUp(m) ==
  LET h == HistGetPrev(m.history)
      value == ItemAt(h.items, h.index)
      m1 == [m EXCEPT !.history = h]
  IN IF value = Undefined \/ value = <<>> THEN m1
     ELSE setCursor(Render(m1, value, TRUE), Len(value))

\* A Down that keeps the text typed so far when no entry follows.
handleDownKeep(m) ==
  LET h == HistGetNext(m.history)
      value == ItemAt(h.items, h.index)
      m1 == [m EXCEPT !.history = h]
  IN IF value = Undefined THEN m1
     ELSE setCursor(Render(m1, value, TRUE), Len(value))

handleDown(m) ==
  LET h == HistGetNext(m.history)
      got == ItemAt(h.items, h.index)
      value == IF got = Undefined THEN <<>> ELSE got
  IN setCursor(Render([m EXCEPT !.history = h], value, TRUE), Len(value))

\* An Alt+Backspace that erases from the word's start to the cursor.
handleAltBackspaceToCursor(m) ==
  LET before == IF variant = "options" THEN getWord(m.input, m.cursor, TRUE)
                ELSE getOffsetWord(m.input, m.cursor, TRUE)
  IN setCursor(Render(m, Substring(m.input, 0, before)
                           \o SubstringFrom(m.input, m.cursor), TRUE), before)

\* The Alt+Backspace case of handleData.
handleAltBackspace(m) ==
  LET before == IF variant = "options" THEN getWord(m.input, m.cursor, TRUE)
                ELSE getOffsetWord(m.input, m.cursor, TRUE)
      after == IF variant = "options" THEN getWord(m.input, before, FALSE)
               ELSE getOffsetWord(m.input, before, FALSE)
  IN setCursor(Render(m, Substring(m.input, 0, before) \o SubstringFrom(m.input, after),
                      TRUE), before)

\* ------------------------------------------------------------ input units

Enter == <<CR>>
Backspace == <<DEL>>
Tab == <<TAB>>
CtrlC == <<ETX>>
Up == <<ESC, "[", "A">>
Down == <<ESC, "[", "B">>
Right == <<ESC, "[", "C">>
Left == <<ESC, "[", "D">>
Delete == <<ESC, "[", "3", "~">>
End == <<ESC, "[", "F">>
Home == <<ESC, "[", "H">>
AltLeft == <<ESC, "b">>
AltRight == <<ESC, "f">>
AltBackspace == <<ESC, DEL>>

\* The escape-sequence branch of handleData, options class.
handleEscapeOpt(m, seq) ==
  CASE seq = Tail(Up) -> handleUp(m)
    [] seq = Tail(Down) -> handleDown(m)
    [] seq = Tail(Delete) -> handleCursorEraseOpt(m, FALSE)
    [] seq = Tail(AltBackspace) -> handleAltBackspace(m)
    [] OTHER -> m

\* The escape-sequence branch of handleData, classic class.
handleEscape(m, seq) ==
  CASE seq = Tail(Up) -> handleUp(m)
    [] seq = Tail(Down) -> handleDown(m)
    [] seq = Tail(Delete) -> handleCursorErase(m, FALSE)
    [] seq = Tail(End) -> setCursor(m, Len(m.input))
    [] seq = Tail(Home) -> setCursor(m, 0)
    [] seq = Tail(AltLeft) -> setCursor(m, getOffsetWord(m.input, m.cursor, TRUE))
    [] seq = Tail(AltRight) -> setCursor(m, getOffsetWord(m.input, m.cursor, FALSE))
    [] seq = Tail(AltBackspace) -> handleAltBackspace(m)
    [] OTHER -> m

\* The Enter case of handleData, options class.
handleEnterOpt(m) ==
  IF incompleteEnabled
  THEN IF hasIncompleteChars(m.input) THEN handleCursorInsertOpt(m, <<NL>>) ELSE m
  ELSE handleReadComplete(m)

\* The Enter case of handleData, classic class.
handleEnter(m) ==
  IF isIncompleteInput(m.input) THEN handleCursorInsert(m, <<NL>>)
  ELSE handleReadComplete(m)

\* The control-character branch of handleData: switch (data).
handleControl(m, data) ==
  CASE data = Enter -> IF variant = "options" THEN handleEnterOpt(m) ELSE handleEnter(m)
    [] data = Backspace -> Erase(m, TRUE)
    [] data = Tab -> handleTab(m)
    [] data = CtrlC -> handleCtrlC(m)
    [] OTHER -> m

\* handleData.
handleData(m, data) ==
  IF ~m.active THEN m
  ELSE IF data # <<>> /\ data[1] = ESC
       THEN IF variant = "options" THEN handleEscapeOpt(m, Tail(data))
            ELSE handleEscape(m, Tail(data))
  ELSE IF data # <<>> /\ IsControl(data[1]) THEN handleControl(m, data)
  ELSE Insert(m, data)

RECURSIVE NormalizeBreaks(_, _)
\* data.replace(/[\r\n]+/g, "\r"), from index i.
NormalizeBreaks(s, i) ==
  IF i > Len(s) THEN <<>>
  ELSE IF s[i] \in {CR, NL}
       THEN IF i > 1 /\ s[i - 1] \in {CR, NL} THEN NormalizeBreaks(s, i + 1)
            ELSE <<CR>> \o NormalizeBreaks(s, i + 1)
  ELSE <<s[i]>> \o NormalizeBreaks(s, i + 1)

RECURSIVE ForEachChar(_, _)
\* Array.from(normData).forEach((c) => this.handleData(c))
ForEachChar(m, chars) ==
  IF chars = <<>> \/ m.threw THEN m
  ELSE ForEachChar(handleData(m, <<Head(chars)>>), Tail(chars))

\* The reaction a resolved char prompt queues.
Reaction(prompt, data) ==
  IF prompt.then.tag = "confirm"
  THEN [tag |-> "confirm", cursor |-> prompt.then.cursor, list |-> prompt.then.list,
        show |-> data \in {<<"y">>, <<"Y">>}]
  ELSE NoTask

\* A handler that lets the unit through to the editor after the char-read.
handleTermDataThrough(m, data) ==
  IF ~m.active THEN m
  ELSE IF m.activePromptChar.kind # "null"
  THEN handleData([Write(m, <<CR, NL>>) EXCEPT
          !.char = [how |-> "resolve", val |-> data],
          !.microtask = Reaction(m.activePromptChar, data),
          !.activePromptChar = NullPrompt], data)
  ELSE handleData(m, data)

\* handleTermData (the same in both classes).
handleTermData(m, data) ==
  IF ~m.active THEN m
  ELSE IF m.activePromptChar.kind # "null"
  THEN [Write(m, <<CR, NL>>) EXCEPT
          !.char = [how |-> "resolve", val |-> data],
          !.microtask = Reaction(m.activePromptChar, data),
          !.activePromptChar = NullPrompt]
  ELSE IF Len(data) > 3 /\ data[1] # ESC
       THEN ForEachChar(m, NormalizeBreaks(data, 1))
  ELSE handleData(m, data)

\* A resize that caches the size before it clears.
handleTermResizeEarly(m, size) ==
  Render(Clear([m EXCEPT !.terminalSize = size]), m.input, FALSE)

\* handleTermResize (the same in both classes).
handleTermResize(m, size) ==
  Render([Clear(m) EXCEPT !.terminalSize = size], m.input, FALSE)

\* The reactions of the confirmation: the list when the answer is y or Y, then
\* the resume.
confirmReaction(m, task) ==
  LET m1 == IF task.show
            THEN Write(m, printlsInline(task.list, Cols(m)))
            ELSE m
  IN resume(m1, task.cursor)

\* ---------------------------------------------------------------- actions

\* The prompts, sizes, reasons and units the callers and the host deliver.
Ps1Default == <<"$", SP>>
Ps2Default == <<">", SP>>
CharPs1 == <<"#">>
Sizes == {[cols |-> 3, rows |-> 24], [cols |-> 4, rows |-> 24]}
Reasons == {"READINT", "aborted"}
Pastes == {<<"|", CR, NL, CR>>}
\* A unit too short to be taken for a paste: a command with its line ending.
Shorts == {<<"l", "s", CR>>}
Units == {<<"a">>, <<"|">>,
          Enter, Backspace, Tab, CtrlC,
          Up, Down, Left, Right, Delete, End, Home, AltLeft, AltRight, AltBackspace}
            \cup Pastes
\* The units that finish, recall and interrupt lines.
Keys == {<<"a">>, Enter, Up, Down, CtrlC}
Answers == {<<"y">>, <<"n">>}
\* An engine built without history is driven with every unit, one built with
\* history with the keys that finish and recall lines.
Driven == IF history.itemsMax = 0 THEN Units ELSE Keys

\* What the constructor did: nothing.
NoEvent ==
  [op |-> "init", line |-> "none", char |-> "none", rendered |-> FALSE,
   threw |-> FALSE]

\* The variables a handler leaves, from the machine it ends in.
Commit(result, op) ==
  \E m \in {result} :
    /\ Len(m.input) <= MaxLen
    /\ m.term.row <= MaxRow
    /\ 0 - m.term.row <= MaxRow
    /\ m.orphans.line <= MaxOrphans
    /\ m.orphans.char <= MaxOrphans
    /\ active' = m.active
    /\ activePrompt' = m.activePrompt
    /\ activePromptChar' = m.activePromptChar
    /\ cursor' = m.cursor
    /\ input' = m.input
    /\ terminalSize' = m.terminalSize
    /\ history' = m.history
    /\ term' = m.term
    /\ orphans' = m.orphans
    /\ microtask' = m.microtask
    /\ ev' = [op |-> op, line |-> m.line.how, char |-> m.char.how,
              rendered |-> m.rendered, threw |-> m.threw]
    /\ UNCHANGED <<variant, incompleteEnabled, accepted, strings, returned>>

\* No handler runs while a promise reaction is queued.
Idle == microtask = NoTask

\* read(ps1, ps2), called again while a line-read is pending at most
\* `overlap` times.
ReadWithin(overlap) ==
  /\ Idle
  /\ activePrompt.kind = "null" \/ orphans.line < overlap
  /\ Commit(read(Machine, Ps1Default, Ps2Default), "read")
  /\ UNCHANGED tabCompleteHandlers

\* readChar(ps1), called again while a char-read is pending at most `overlap`
\* times.
ReadCharWithin(overlap) ==
  /\ Idle
  /\ term.row < CharRows
  /\ activePromptChar.kind = "null" \/ orphans.char < overlap
  /\ Commit(readChar(Machine, CharPs1, NoThen), "readChar")
  /\ UNCHANGED tabCompleteHandlers

\* What the unit is to handleTermData and handleData: a paste, Ctrl+C, Tab or
\* any other data.
UnitKind(data) ==
  IF Len(data) > 3 /\ data[1] # ESC THEN "paste"
  ELSE IF data = CtrlC THEN "cancel"
  ELSE IF data = Tab THEN "tab"
  ELSE "data"

\* The terminal's onData event with one of `units`.
DataOf(units) ==
  /\ Idle
  /\ \E data \in units \cup (IF activePromptChar.kind # "null" THEN Answers ELSE {}) :
       Commit(handleTermData(Machine, data), UnitKind(data))
  /\ UNCHANGED tabCompleteHandlers

Read == ReadWithin(0)

ReadChar == ReadCharWithin(0)

ReadAgain == ReadWithin(MaxOrphans)

ReadCharAgain == ReadCharWithin(MaxOrphans)

\* abortRead(reason).
Abort ==
  /\ Idle
  /\ \E reason \in Reasons : Commit(abortRead(Machine, reason), "abort")
  /\ UNCHANGED tabCompleteHandlers

Data == DataOf(Driven)

Type == DataOf(Keys)

\* The terminal's onResize event.
Resize ==
  /\ Idle
  /\ \E size \in Sizes : Commit(handleTermResize(Machine, size), "resize")
  /\ UNCHANGED tabCompleteHandlers

RunMicrotask ==
  /\ microtask # NoTask
  /\ Commit(confirmReaction(Machine, microtask), "reaction")
  /\ UNCHANGED tabCompleteHandlers

\* addTabCompleteHandler / addAutocompleteHandler.
AddHandler ==
  /\ Idle
  /\ Tab \in Driven
  /\ \E fn \in {"cmd"} :
       /\ Len(tabCompleteHandlers) < 1
       /\ tabCompleteHandlers' = Append(tabCompleteHandlers, fn)
  /\ ev' = [NoEvent EXCEPT !.op = "addHandler"]
  /\ UNCHANGED <<variant, incompleteEnabled, active, activePrompt, activePromptChar,
                 cursor, input, terminalSize, history, term, orphans, microtask,
                 accepted, strings, returned>>

\* removeTabCompleteHandler / removeAutocompleteHandler.
RemoveHandler ==
  /\ Idle
  /\ \E fn \in {"cmd"} :
       /\ \E i \in 1..Len(tabCompleteHandlers) : tabCompleteHandlers[i] = fn
       /\ LET idx == CHOOSE i \in 1..Len(tabCompleteHandlers) :
                       /\ tabCompleteHandlers[i] = fn
                       /\ \A j \in 1..(i - 1) : tabCompleteHandlers[j] # fn
          IN tabCompleteHandlers' = SubSeq(tabCompleteHandlers, 1, idx - 1)
                 \o SubSeq(tabCompleteHandlers, idx + 1, Len(tabCompleteHandlers))
  /\ ev' = [NoEvent EXCEPT !.op = "removeHandler"]
  /\ UNCHANGED <<variant, incompleteEnabled, active, activePrompt, activePromptChar,
                 cursor, input, terminalSize, history, term, orphans, microtask,
                 accepted, strings, returned>>

\* The fields the constructor initialises to the same values whatever its
\* options.
Constructed ==
  /\ tabCompleteHandlers = <<>>
  /\ active = FALSE
  /\ activePrompt = NullPrompt
  /\ activePromptChar = NullPrompt
  /\ cursor = 0
  /\ input = <<>>
  /\ term = TermHome
  /\ orphans = [line |-> 0, char |-> 0]
  /\ microtask = NoTask
  /\ ev = NoEvent
  /\ accepted = <<>>
  /\ strings = <<>>
  /\ returned = Undefined

\* The engine after its constructor and activate(terminal).
Init ==
  /\ variant \in {"options", "classic"}
  /\ incompleteEnabled \in (IF variant = "options" THEN BOOLEAN ELSE {TRUE})
  /\ terminalSize \in Sizes
  /\ history \in {HistNew(0), HistNew(HistSize)}
  /\ Constructed

Next ==
  \/ Read
  \/ ReadChar
  \/ Abort
  \/ Data
  \/ Resize
  \/ RunMicrotask
  \/ AddHandler
  \/ RemoveHandler

Spec == Init /\ [][Next]_vars

\* The engine built without history, its reads started again while pending.
InitOverlap == Init /\ history = HistNew(0)

NextOverlap ==
  \/ ReadAgain
  \/ ReadCharAgain
  \/ Abort
  \/ Type

SpecOverlap == InitOverlap /\ [][NextOverlap]_vars

\* ---------------------------------------------------------- History alone

\* The lines pushed: two words, a longer one, a blank one and the empty one.
Lines == {<<"a">>, <<"b">>, <<"a", "b">>, <<SP>>, <<>>}

\* What a History call leaves in the engine's record of the last operation.
Called(op) == [NoEvent EXCEPT !.op = op]

\* history.push(line); accepted grows by the lines that neither trim to empty
\* nor repeat the entry stored last.
Push ==
  /\ Len(accepted) < MaxPush
  /\ \E line \in Lines :
       /\ history' = HistPush(history, line)
       /\ accepted' = IF \/ TrimsToEmpty(line)
                         \/ history.items # <<>> /\ line = history.items[Len(history.items)]
                      THEN accepted
                      ELSE Append(accepted, line)
       /\ ev' = Called("push")
  /\ returned' = Undefined
  /\ UNCHANGED <<variant, incompleteEnabled, tabCompleteHandlers, active, activePrompt,
                 activePromptChar, cursor, input, terminalSize, term, orphans, microtask,
                 strings>>

\* history.getPrev().
GetPrev ==
  /\ history' = HistGetPrev(history)
  /\ returned' = ItemAt(history'.items, history'.index)
  /\ ev' = Called("getPrev")
  /\ UNCHANGED <<variant, incompleteEnabled, tabCompleteHandlers, active, activePrompt,
                 activePromptChar, cursor, input, terminalSize, term, orphans, microtask,
                 accepted, strings>>

\* history.getNext().
GetNext ==
  /\ history' = HistGetNext(history)
  /\ returned' = ItemAt(history'.items, history'.index)
  /\ ev' = Called("getNext")
  /\ UNCHANGED <<variant, incompleteEnabled, tabCompleteHandlers, active, activePrompt,
                 activePromptChar, cursor, input, terminalSize, term, orphans, microtask,
                 accepted, strings>>

\* history.rewind().
Rewind ==
  /\ history' = HistRewind(history)
  /\ returned' = Undefined
  /\ ev' = Called("rewind")
  /\ UNCHANGED <<variant, incompleteEnabled, tabCompleteHandlers, active, activePrompt,
                 activePromptChar, cursor, input, terminalSize, term, orphans, microtask,
                 accepted, strings>>

\* A History of any capacity up to RingSize, in an engine nobody drives.
InitHistory ==
  /\ variant = "classic"
  /\ incompleteEnabled = TRUE
  /\ terminalSize \in Sizes
  /\ history \in {HistNew(n) : n \in 0..RingSize}
  /\ Constructed

NextHistory ==
  \/ Push
  \/ GetPrev
  \/ GetNext
  \/ Rewind

SpecHistory == InitHistory /\ [][NextHistory]_vars

\* ------------------------------------------------- the engine, completing

\* The callbacks a caller registers, and the units the host delivers, where
\* completion is what is driven.
TabProviders == {"one", "opt", "boom", "later"}
TabPastes == {<<TAB, "a", "a", "a">>}
TabUnits == {<<"a">>, <<SP>>, Tab, Home} \cup TabPastes \cup Shorts

\* addTabCompleteHandler / addAutocompleteHandler with any of the callbacks.
AddTabHandler ==
  /\ Idle
  /\ Len(tabCompleteHandlers) < MaxHandlers
  /\ \E fn \in TabProviders : tabCompleteHandlers' = Append(tabCompleteHandlers, fn)
  /\ ev' = [NoEvent EXCEPT !.op = "addHandler"]
  /\ UNCHANGED <<variant, incompleteEnabled, active, activePrompt, activePromptChar,
                 cursor, input, terminalSize, history, term, orphans, microtask,
                 accepted, strings, returned>>

TypeTab == DataOf(TabUnits)

InitTab == Init /\ history = HistNew(0)

NextTab ==
  \/ Read
  \/ AddTabHandler
  \/ TypeTab
  \/ RunMicrotask

SpecTab == InitTab /\ [][NextTab]_vars

\* ------------------------------------------------ the utilities, called alone

\* The strings of at most n characters of an alphabet.
Strs(alphabet, n) == UNION {[1..k -> alphabet] : k \in 0..n}

\* The non-empty lists of at most n strings of a set.
Lists(set, n) == UNION {[1..k -> set] : k \in 1..n}

\* An engine nobody drives, but for the arguments of the utility calls.
Untouched ==
  /\ variant = "classic"
  /\ incompleteEnabled = TRUE
  /\ active = FALSE
  /\ activePrompt = NullPrompt
  /\ activePromptChar = NullPrompt
  /\ history = HistNew(0)
  /\ term = TermHome
  /\ orphans = [line |-> 0, char |-> 0]
  /\ microtask = NoTask
  /\ ev = NoEvent
  /\ accepted = <<>>
  /\ returned = Undefined

\* A call of utility op on the arguments the state holds: what it returned.
Answered(op, value) ==
  /\ returned' = value
  /\ ev' = Called(op)
  /\ UNCHANGED <<variant, incompleteEnabled, tabCompleteHandlers, active, activePrompt,
                 activePromptChar, input, terminalSize, history, term, orphans,
                 microtask, accepted, strings>>

\* ---------------------------------------------------- completion utilities

\* The texts before the cursor, the callbacks registered, the fragments and
\* the candidate lists the completion utilities are handed.
CompleteTexts == Strs({"a", "b", SP, NL, "|"}, MaxText)
CompleteProviders == {"cmd", "opt", "boom", "later"}
CallbackLists == {<<>>} \cup Lists(CompleteProviders, MaxHandlers)
Fragments == Strs({"a", "b"}, MaxWord)
CandidateLists == Lists(Fragments, MaxList)

\* collectAutocompleteCandidates(callbacks, input) of the classic class.
CollectAutocompleteCandidates ==
  /\ cursor' = cursor
  /\ Answered("collectAutocompleteCandidates",
              collectAutocompleteCandidates(tabCompleteHandlers, input))

\* getTabSuggestions(callbacks, input) of the options class.
GetTabSuggestions ==
  /\ cursor' = cursor
  /\ Answered("getTabSuggestions", getTabSuggestions(tabCompleteHandlers, input))

\* getSharedFragment(fragment, candidates), the same function in both
\* classes; candidates[0] is read first, so the list is not empty.
GetSharedFragment ==
  /\ strings # <<>>
  /\ cursor' = cursor
  /\ Answered("getSharedFragment", getSharedFragment(input, strings))

\* Either a text and the callbacks, or a fragment and its candidates.
InitComplete ==
  /\ Untouched
  /\ cursor = 0
  /\ terminalSize \in Sizes
  /\ \/ /\ input \in CompleteTexts
        /\ tabCompleteHandlers \in CallbackLists
        /\ strings = <<>>
     \/ /\ input \in Fragments
        /\ tabCompleteHandlers = <<>>
        /\ strings \in CandidateLists

NextComplete ==
  \/ CollectAutocompleteCandidates
  \/ GetTabSuggestions
  \/ GetSharedFragment

SpecComplete == InitComplete /\ [][NextComplete]_vars

\* ---------------------------------------------------------- text utilities

\* The texts the text utilities are handed: words, blanks, line breaks,
\* quotes, operators and backslashes.
ShellTexts == Strs({"a", SP, TAB, NL, BSL, "'", "\"", "|", "&"}, MaxText)

\* isIncompleteInput(input) of the classic class.
IsIncompleteInput ==
  /\ cursor' = cursor
  /\ Answered("isIncompleteInput", isIncompleteInput(input))

\* hasIncompleteChars(input) of the options class.
HasIncompleteChars ==
  /\ cursor' = cursor
  /\ Answered("hasIncompleteChars", hasIncompleteChars(input))

\* hasTailingWhitespace(input), the same function in both classes.
HasTailingWhitespace ==
  /\ cursor' = cursor
  /\ Answered("hasTailingWhitespace", hasTailingWhitespace(input))

InitText ==
  /\ Untouched
  /\ cursor = 0
  /\ terminalSize \in Sizes
  /\ input \in ShellTexts
  /\ tabCompleteHandlers = <<>>
  /\ strings = <<>>

NextText ==
  \/ IsIncompleteInput
  \/ HasIncompleteChars
  \/ HasTailingWhitespace

SpecText == InitText /\ [][NextText]_vars

\* ------------------------------------------------------ geometry utilities

\* The texts the geometry utilities are handed, made of characters, line
\* breaks and colour sequences, and the sizes of the terminal.
Colour == <<ESC, "[", "m">>
GeoPieces == {<<"a">>, <<NL>>, Colour}
GeoTexts == {Flatten(pieces) : pieces \in Strs(GeoPieces, MaxPieces)}
GeoSizes == {[cols |-> c, rows |-> 24] : c \in 1..MaxCols}

\* A call with an offset into the text.
AnsweredAt(offset, op, value) ==
  /\ cursor' = offset
  /\ Answered(op, value)

\* offsetToColRow(input, offset, maxCols) of the classic class.
OffsetToColRow ==
  \E offset \in 0..Len(input) :
    AnsweredAt(offset, "offsetToColRow",
               offsetToColRow(input, offset, terminalSize.cols))

\* getColRow(input, offset, cols) of the options class.
GetColRow ==
  \E offset \in 0..Len(input) :
    AnsweredAt(offset, "getColRow", getColRow(input, offset, terminalSize.cols))

\* getColRow(input, offset, cols) of the README's first listing.
GetColRowVariant ==
  \E offset \in 0..Len(input) :
    AnsweredAt(offset, "getColRowVariant",
               getColRowVariant(input, offset, terminalSize.cols))

\* countLines(input, maxCols) of the classic class.
CountLines ==
  /\ cursor' = cursor
  /\ Answered("countLines", countLines(input, terminalSize.cols))

\* getLineCount(input, cols) of the options class.
GetLineCount ==
  /\ cursor' = cursor
  /\ Answered("getLineCount", getLineCount(input, terminalSize.cols))

\* getLineCount(input, cols) of the README's first listing.
GetLineCountVariant ==
  /\ cursor' = cursor
  /\ Answered("getLineCountVariant", getLineCountVariant(input, terminalSize.cols))

\* The row and column clearInput, setInput and setCursor compute for a cursor
\* at offset in the text, shown after an empty prompt.
PromptCursor ==
  \E offset \in 0..Len(input) :
    LET reading == [kind |-> "line", ps1 |-> <<>>, ps2 |-> <<>>]
    IN AnsweredAt(offset, "promptCursor",
                  offsetToColRow(applyPrompts(reading, input),
                                 applyPromptOffset(reading, input, offset),
                                 terminalSize.cols))

InitGeometry ==
  /\ Untouched
  /\ cursor = 0
  /\ terminalSize \in GeoSizes
  /\ input \in GeoTexts
  /\ tabCompleteHandlers = <<>>
  /\ strings = <<>>

NextGeometry ==
  \/ OffsetToColRow
  \/ GetColRow
  \/ GetColRowVariant
  \/ CountLines
  \/ GetLineCount
  \/ GetLineCountVariant
  \/ PromptCursor

SpecGeometry == InitGeometry /\ [][NextGeometry]_vars

\* --------------------------------------------------------------- printing

\* The texts and the lists of items the print methods are handed, and the
\* sizes of the terminal they print on.
PrintTexts == Strs({"a", CR, NL}, MaxText)
ItemLists == {<<>>} \cup Lists(Strs({"a", "b"}, MaxWord), MaxList)
PrintSizes == GeoSizes \cup Sizes

\* print(output): what the terminal is written.
PrintOutput ==
  /\ cursor' = cursor
  /\ Answered("print", print(input))

\* println(output).
PrintLine ==
  /\ cursor' = cursor
  /\ Answered("println", println(input))

\* printlsInline(items), the same method in both classes.
PrintlsInline ==
  /\ cursor' = cursor
  /\ Answered("printlsInline", printlsInline(strings, terminalSize.cols))

\* printWide(items) of the classic class.
PrintWide ==
  /\ cursor' = cursor
  /\ Answered("printWide", printWide(strings, terminalSize.cols))

\* Either a text or a list of items.
InitPrint ==
  /\ Untouched
  /\ cursor = 0
  /\ terminalSize \in PrintSizes
  /\ tabCompleteHandlers = <<>>
  /\ \/ input \in PrintTexts /\ strings = <<>>
     \/ input = <<>> /\ strings \in ItemLists

NextPrint ==
  \/ PrintOutput
  \/ PrintLine
  \/ PrintlsInline
  \/ PrintWide

SpecPrint == InitPrint /\ [][NextPrint]_vars

\* ------------------------------------------------------------- properties

LineBreak == <<CR, NL>>

\* The incomplete-input detector the running class consults on Enter.
Incomplete(str) ==
  IF variant = "options" THEN hasIncompleteChars(str) ELSE isIncompleteInput(str)

\* A line-read is active, no char-read is pending and continuation is enabled.
ReadingLine ==
  /\ Idle
  /\ active
  /\ activePrompt.kind = "line"
  /\ activePromptChar.kind = "null"
  /\ incompleteEnabled

\* Every unit the host delivers in some specification.
AnyUnit == Units \cup Keys \cup Answers

\* C1: with a line-read active, no char-read pending and continuation enabled,
\* Enter on a buffer that is not incomplete input resolves the read with
\* exactly the buffer, pushes the buffer to history, writes a line break and
\* leaves the engine idle.
C1_EnterResolvesRead ==
  (ReadingLine /\ ~Incomplete(input))
    => LET m == handleTermData(Machine, Enter)
       IN /\ m.line = [how |-> "resolve", val |-> input]
          /\ m.history = HistPush(history, input)
          /\ m.out = LineBreak
          /\ m.activePrompt = NullPrompt
          /\ ~m.active

\* C2: with continuation enabled, Enter on an incomplete buffer inserts one
\* newline at the cursor and leaves the read pending, the history untouched and
\* the engine reading; Enter on a buffer that holds newlines and is no longer
\* incomplete resolves the read with the whole buffer.
C2_ContinuationThenResolve ==
  /\ (ReadingLine /\ Incomplete(input))
       => LET m == handleTermData(Machine, Enter)
          IN /\ m.input = Substring(input, 0, cursor) \o <<NL>>
                             \o SubstringFrom(input, cursor)
             /\ m.line = NoSettle
             /\ m.activePrompt = activePrompt
             /\ m.history = history
             /\ m.active
  /\ (ReadingLine /\ ~Incomplete(input) /\ CountChar(input, NL) > 0)
       => LET m == handleTermData(Machine, Enter)
          IN /\ m.line = [how |-> "resolve", val |-> input]
             /\ m.activePrompt = NullPrompt

\* C3: after every operation the cursor offset is at least 0 and at most the
\* length of the buffer.
C3_CursorWithinBuffer == 0 <= cursor /\ cursor <= Len(input)

\* C3 witness: an input unit has re-rendered a full buffer with the cursor
\* strictly inside it.
C3_Witness ==
  /\ ev.op = "data"
  /\ ev.rendered
  /\ Len(input) = MaxLen
  /\ 0 < cursor
  /\ cursor < Len(input)

\* C4: with a char-read pending while a line-read is active, the next unit,
\* whichever it is, resolves the char-read with the unit as delivered, empties
\* the char slot, writes a line break and changes neither the buffer, the
\* cursor, the history nor the pending line-read.
C4_CharReadTakesUnit ==
  (Idle /\ active /\ activePrompt.kind = "line" /\ activePromptChar.kind = "char")
    => \A data \in AnyUnit :
         LET m == handleTermData(Machine, data)
         IN /\ m.char = [how |-> "resolve", val |-> data]
            /\ m.activePromptChar = NullPrompt
            /\ m.out = LineBreak
            /\ m.input = input
            /\ m.cursor = cursor
            /\ m.history = history
            /\ m.activePrompt = activePrompt
            /\ m.line = NoSettle
            /\ m.active

\* C4 witness: a unit has resolved a char-read while the line-read keeps a
\* buffer and the history keeps an entry.
C4_Witness ==
  /\ ev.op = "data"
  /\ ev.char = "resolve"
  /\ ev.line = "none"
  /\ active
  /\ activePrompt.kind = "line"
  /\ activePromptChar.kind = "null"
  /\ input # <<>>
  /\ history.items # <<>>

\* C5: a pending char-read is resolved by the next unit whatever the engine is
\* doing, reading a line or not.
C5_CharReadResolvedAnywhere ==
  (Idle /\ activePromptChar.kind = "char")
    => \A data \in AnyUnit :
         LET m == handleTermData(Machine, data)
         IN /\ m.char = [how |-> "resolve", val |-> data]
            /\ m.activePromptChar = NullPrompt

\* C6: abortRead(reason) rejects the pending line-read and the pending
\* char-read with reason, empties both slots, writes one line break exactly
\* when one of them was pending, and leaves the engine idle; with nothing
\* pending it rejects nothing and writes nothing.
C6_AbortRejectsPending ==
  Idle
    => \A reason \in Reasons :
         LET m == abortRead(Machine, reason)
             hadLine == activePrompt.kind # "null"
             hadChar == activePromptChar.kind # "null"
             rejected == [how |-> "reject", val |-> reason]
         IN /\ m.line = IF hadLine THEN rejected ELSE NoSettle
            /\ m.char = IF hadChar THEN rejected ELSE NoSettle
            /\ m.out = IF hadLine \/ hadChar THEN LineBreak ELSE <<>>
            /\ m.activePrompt = NullPrompt
            /\ m.activePromptChar = NullPrompt
            /\ ~m.active

\* C6 witness: an abort has rejected a line-read and a char-read together.
C6_Witness ==
  /\ ev.op = "abort"
  /\ ev.line = "reject"
  /\ ev.char = "reject"
  /\ ~active
  /\ activePrompt = NullPrompt
  /\ activePromptChar = NullPrompt

\* C7: every promise read and readChar have returned is settled or is the one
\* in its slot, so none is left unsettled outside the slots.
C7_NoPromiseLeftBehind == orphans.line = 0 /\ orphans.char = 0

\* C8: after a render during a line-read the terminal's cursor, counted from
\* the prompt's first row, is where the running class's offset-to-position
\* function puts the decorated cursor in the decorated buffer.
C8_TerminalCursorMatches ==
  (/\ ev.rendered
   /\ active
   /\ activePrompt.kind = "line"
   /\ activePromptChar.kind = "null"
   /\ microtask = NoTask)
    => LET text == applyPrompts(activePrompt, input)
           at == ColRow(text, applyPromptOffset(activePrompt, input, cursor),
                        terminalSize.cols)
       IN term.row = at.row /\ term.col = at.col

\* The last n elements of seq.
LastN(seq, n) == SubSeq(seq, Max(1, Len(seq) - n + 1), Len(seq))

\* C9: after any pushes the ring holds the last itemsMax accepted lines in
\* push order, so never more than itemsMax entries, the oldest evicted first.
C9_RingKeepsLastAccepted ==
  /\ history.items = LastN(accepted, history.itemsMax)
  /\ Len(history.items) <= history.itemsMax

\* C9 witness: a full ring of the largest capacity has evicted its oldest line.
C9_Witness ==
  /\ ev.op = "push"
  /\ history.itemsMax = RingSize
  /\ Len(accepted) > RingSize
  /\ Len(history.items) = RingSize
  /\ history.items[1] = accepted[Len(accepted) - RingSize + 1]
  /\ history.items[1] # accepted[1]

C11_PushRewinds ==
  \A line \in Lines :
    HistPush(history, line).index = Len(HistPush(history, line).items)

\* C12: whenever a line-read starts the browse index equals the number of
\* entries, so the first history-previous recalls the newest entry.
C12_ReadStartsRewound ==
  ev.op = "read"
    => /\ history.index = Len(history.items)
       /\ (history.items # <<>> /\ activePromptChar.kind = "null")
            => handleTermData(Machine, Up).input = history.items[Len(history.items)]

\* What setCursor writes to move from the cursor to the end of the buffer.
ToEnd == setCursor(Machine, Len(input)).out

\* C13: Ctrl-C during a line-read empties the buffer, sets the cursor to 0,
\* rewinds the browse index to the number of entries, writes the cancellation
\* marker, a line break and the prompt, and leaves the read pending: nothing is
\* settled, the engine keeps reading and the entries are unchanged.
C13_CtrlCKeepsReading ==
  (Idle /\ active /\ activePrompt.kind = "line" /\ activePromptChar.kind = "null")
    => LET m == handleTermData(Machine, CtrlC)
       IN /\ m.input = <<>>
          /\ m.cursor = 0
          /\ m.history.index = Len(history.items)
          /\ m.history.items = history.items
          /\ m.out = ToEnd \o <<"^", "C">> \o LineBreak \o activePrompt.ps1
          /\ m.line = NoSettle
          /\ m.char = NoSettle
          /\ m.activePrompt = activePrompt
          /\ m.active

\* C13 witness: Ctrl-C has cancelled a line of a read that goes on, with an
\* entry in the history.
C13_Witness ==
  /\ ev.op = "cancel"
  /\ ev.line = "none"
  /\ ev.char = "none"
  /\ active
  /\ activePrompt.kind = "line"
  /\ input = <<>>
  /\ cursor = 0
  /\ history.items # <<>>
  /\ history.index = Len(history.items)

\* The text before the cursor, which the Tab case completes, and what the
\* running class collects for it.
Fragment == Substring(input, 0, cursor)
CollectedFrom(callbacks) ==
  IF variant = "options" THEN getTabSuggestions(callbacks, Fragment)
  ELSE collectAutocompleteCandidates(callbacks, Fragment)
Collected == CollectedFrom(tabCompleteHandlers)

\* A line-read is active with no char-read pending, callbacks are registered
\* and the collection yields a list.
Completing ==
  /\ Idle
  /\ active
  /\ activePrompt.kind = "line"
  /\ activePromptChar.kind = "null"
  /\ tabCompleteHandlers # <<>>
  /\ Collected # TypeError

\* The word str ends with: its longest suffix without white space and without
\* the characters of a control operator.
RECURSIVE TrailingWord(_)
TrailingWord(str) ==
  IF str = <<>> \/ IsSpace(str[Len(str)]) \/ str[Len(str)] \in {"|", "&"} THEN <<>>
  ELSE Append(TrailingWord(SubSeq(str, 1, Len(str) - 1)), str[Len(str)])

\* The longest prefix all the strings of list share.
RECURSIVE CommonPrefix(_)
CommonPrefix(list) ==
  LET first == list[1]
      n == CHOOSE k \in 0..Len(first) :
             /\ \A i \in 1..Len(list) : StartsWith(list[i], SubSeq(first, 1, k))
             /\ \A j \in (k + 1)..Len(first) :
                  \E i \in 1..Len(list) : ~StartsWith(list[i], SubSeq(first, 1, j))
  IN SubSeq(first, 1, n)

\* part occurs in whole as a run of consecutive elements.
Contains(whole, part) ==
  \E i \in 0..(Len(whole) - Len(part)) : SubSeq(whole, i + 1, i + Len(part)) = part

\* C16: Tab with exactly one candidate turns the text before the cursor into
\* that text with its last token completed to the candidate, plus one space;
\* the text after the cursor is unchanged and the cursor is right after the
\* space.
C16_SoleCandidateCompletes ==
  (Completing /\ Len(Collected) = 1)
    => LET m == handleTermData(Machine, Tab)
           token == TrailingWord(Fragment)
           completed == SubSeq(Fragment, 1, Len(Fragment) - Len(token))
                          \o Collected[1] \o <<SP>>
       IN /\ StartsWith(Collected[1], token)
          /\ m.input = completed \o SubstringFrom(input, cursor)
          /\ m.cursor = Len(completed)
          /\ m.line = NoSettle
          /\ m.active

\* C17: Tab with 2..N candidates inserts at the cursor the part of the
\* candidates' shared prefix beyond the last token, nothing when the prefix is
\* no longer than the token, whichever token of the line it is; then the last
\* token before the cursor is a prefix of every candidate, the rest of the
\* buffer is unchanged, the list is printed and the prompt is rendered again
\* with the read pending.
C17_SharedPrefixCompletes ==
  (Completing /\ Len(Collected) >= 2 /\ Len(Collected) <= TabSize)
    => LET m == handleTermData(Machine, Tab)
           token == TrailingWord(Fragment)
           shared == CommonPrefix(Collected)
           rest == IF Len(shared) > Len(token) THEN SubstringFrom(shared, Len(token))
                   ELSE <<>>
       IN /\ m.input = Fragment \o rest \o SubstringFrom(input, cursor)
          /\ m.cursor = cursor + Len(rest)
          /\ \A i \in 1..Len(Collected) :
               StartsWith(Collected[i], TrailingWord(Substring(m.input, 0, m.cursor)))
          /\ Contains(m.out, printlsInline(sortCandidates(Collected), terminalSize.cols))
          /\ m.rendered
          /\ m.line = NoSettle
          /\ m.activePrompt = activePrompt
          /\ m.active

\* The engine once the reaction a handler queued has run: promise reactions run
\* before the next event.
Settle(m) ==
  IF m.microtask = NoTask THEN m
  ELSE confirmReaction([m EXCEPT !.microtask = NoTask], m.microtask)

\* The characters delivered as units of their own, one event each.
RECURSIVE OneByOne(_, _)
OneByOne(m, chars) ==
  IF chars = <<>> THEN m
  ELSE OneByOne(Settle(handleTermData(m, <<Head(chars)>>)), Tail(chars))

\* The same buffer, cursor, history and pending reads, and the same
\* settlements.
SameEngine(x, y) ==
  /\ x.input = y.input
  /\ x.cursor = y.cursor
  /\ x.history = y.history
  /\ x.active = y.active
  /\ x.activePrompt = y.activePrompt
  /\ x.activePromptChar = y.activePromptChar
  /\ x.line = y.line
  /\ x.char = y.char

\* Every paste of the model.
AnyPaste == Pastes \cup TabPastes

\* C14: a paste leaves the engine as its characters do, delivered one unit
\* each in the same order after every run of line breaks became one carriage
\* return; a paste with Enter or Tab in it included.
C14_PasteIsItsCharacters ==
  (Idle /\ activePromptChar.kind = "null")
    => \A paste \in AnyPaste :
         SameEngine(Settle(handleTermData(Machine, paste)),
                    OneByOne(Machine, NormalizeBreaks(paste, 1)))

\* C15: while a char-read is pending no character reaches the line editor:
\* a unit leaves the buffer and the cursor alone, and so does the rest of a
\* paste once one of its characters has opened a char-read.
C15_NoEditWhileCharPending ==
  /\ (Idle /\ activePromptChar.kind # "null")
       => \A data \in AnyUnit \cup TabUnits :
            LET m == handleTermData(Machine, data)
            IN m.input = input /\ m.cursor = cursor
  /\ (Idle /\ active /\ activePromptChar.kind = "null")
       => \A paste \in AnyPaste :
            LET chars == NormalizeBreaks(paste, 1)
            IN \A k \in 1..Len(chars) :
                 LET opened == ForEachChar(Machine, SubSeq(chars, 1, k))
                     after == ForEachChar(opened, SubSeq(chars, k + 1, Len(chars)))
                 IN opened.activePromptChar.kind # "null"
                      => after.input = opened.input /\ after.cursor = opened.cursor

\* What the units deliver Tab with, first: Tab itself and the pastes that
\* start with it.
TabFirst == {Tab} \cup {paste \in AnyPaste : paste[1] = TAB}

\* Tab, delivered in data to an engine with more candidates than the cap,
\* opens a char-read and prints no list; whatever the answer, the reaction
\* renders the prompt with the buffer and the cursor of before Tab, the
\* line-read still pending, and the list is printed exactly for y and Y.
ConfirmsAndResumes(data) ==
  LET list == printlsInline(sortCandidates(Collected), terminalSize.cols)
      m == handleTermData(Machine, data)
  IN /\ m.activePromptChar.kind = "char"
     /\ data = Tab => m.input = input
     /\ ~Contains(m.out, list)
     /\ m.line = NoSettle
     /\ \A answer \in Answers \cup {<<"Y">>, <<"a">>, Enter} :
          LET end == Settle(handleTermData([m EXCEPT !.out = <<>>], answer))
          IN /\ end.char = [how |-> "resolve", val |-> answer]
             /\ end.activePromptChar = NullPrompt
             /\ end.input = input
             /\ end.cursor = cursor
             /\ end.rendered
             /\ end.line = NoSettle
             /\ end.activePrompt = activePrompt
             /\ end.active
             /\ Contains(end.out, list) = (answer \in {<<"y">>, <<"Y">>})

\* C18: Tab with more than N candidates opens a nested char-read and inserts
\* nothing; the list is printed exactly when the answer is y or Y; when the
\* answer has arrived the prompt is rendered with the buffer and the cursor
\* as they were before Tab and the line-read is still pending.
C18_ConfirmThenResume ==
  (Completing /\ Len(Collected) > TabSize)
    => \A data \in TabFirst : ConfirmsAndResumes(data)

\* The callbacks but those that throw.
NotThrowing(callbacks) ==
  LET Returns(fn) == fn # "boom" IN SelectSeq(callbacks, Returns)

\* C19: a callback that throws adds no candidate and stops nothing: the
\* candidates are those of the other callbacks, in their order, and no error
\* leaves the Tab case.
C19_ThrowingProviderSkipped ==
  LET tokens == parse(Fragment)
  IN /\ \A index \in 0..Len(tokens) :
          CollectFrom(tabCompleteHandlers, index, tokens)
            = CollectFrom(NotThrowing(tabCompleteHandlers), index, tokens)
     /\ (\A i \in 1..Len(tabCompleteHandlers) : tabCompleteHandlers[i] # "later")
          => /\ Collected
                  = CollectedFrom(NotThrowing(tabCompleteHandlers))
             /\ (Idle /\ tabCompleteHandlers # NotThrowing(tabCompleteHandlers))
                  => ~handleTermData(Machine, Tab).threw

\* C19 witness: Tab has completed "a" to the candidate of the callback
\* registered after one that throws.
C19_Witness ==
  /\ ev.op = "tab"
  /\ ~ev.threw
  /\ ev.rendered
  /\ tabCompleteHandlers = <<"boom", "one">>
  /\ input = <<"a", "b", SP>>
  /\ cursor = 3

\* C20: callbacks may return their candidates or a promise of them: no error
\* leaves the input handler on Tab, and the candidates a promise settles to
\* are collected as if returned.
C20_PendingProviderServed ==
  LET Settled(callbacks) ==
        [i \in 1..Len(callbacks) |->
           IF callbacks[i] = "later" THEN "one" ELSE callbacks[i]]
  IN /\ Idle => ~handleTermData(Machine, Tab).threw
     /\ Collected = CollectedFrom(Settled(tabCompleteHandlers))

\* ------------------------------------------------- the utilities' contracts

\* The text of a token: of a word the word, of an operator its characters.
TokenText(t) == IF IsOp(t) THEN Tail(t) ELSE t

\* The text ends in a space or a tab that no backslash escapes.
EndsInBlank(text) ==
  /\ text # <<>>
  /\ text[Len(text)] \in {SP, TAB}
  /\ (Len(text) = 1 \/ text[Len(text) - 1] # BSL)

\* What the callbacks hand back for the active token of a text, each called
\* once in the order of registration: nothing from one that throws, and from
\* one that promises its candidates those candidates; of these the ones that
\* start with the active token's text.
ClaimedCandidates(callbacks, text) ==
  LET tokens == parse(text)
      empty == TrimsToEmpty(text) \/ EndsInBlank(text)
      index == IF TrimsToEmpty(text) THEN 0
               ELSE IF EndsInBlank(text) THEN Len(tokens)
               ELSE Len(tokens) - 1
      token == IF empty THEN <<>> ELSE TokenText(tokens[Len(tokens)])
      Got[i \in 0..Len(callbacks)] ==
        IF i = 0 THEN <<>>
        ELSE LET fn == IF callbacks[i] = "later" THEN "one" ELSE callbacks[i]
                 got == Provider(fn, index, tokens)
             IN Got[i - 1] \o (IF got = Throws THEN <<>> ELSE got)
      Starts(txt) == StartsWith(txt, token)
  IN SelectSeq(Got[Len(callbacks)], Starts)

\* C21: the collection of either class returns, for every text and every
\* list of callbacks, the candidates of the callbacks in the order of
\* registration, each called with the index of the active token (0 for a
\* blank text, one past the last token after trailing whitespace, the last
\* token's otherwise) and the tokens, restricted to those that start with
\* the active token's text.
C21_CollectsInOrder ==
  ev.op \in {"collectAutocompleteCandidates", "getTabSuggestions"}
    => returned = ClaimedCandidates(tabCompleteHandlers, input)

\* C22: getSharedFragment returns null when a candidate does not start with
\* the fragment, and otherwise the longest string that starts with the
\* fragment and with which every candidate starts.
C22_SharedPrefixOrNone ==
  ev.op = "getSharedFragment"
    => IF \E i \in 1..Len(strings) : ~StartsWith(strings[i], input)
       THEN returned = Undefined
       ELSE returned = CommonPrefix(strings)

\* The backslashes a text ends with.
RECURSIVE TrailingBackslashes(_)
TrailingBackslashes(s) ==
  IF s = <<>> \/ s[Len(s)] # BSL THEN 0
  ELSE 1 + TrailingBackslashes(SubSeq(s, 1, Len(s) - 1))

\* C23: a text that is empty or all whitespace is complete; any other text
\* is incomplete exactly when it has an odd number of single quotes, or an
\* odd number of double quotes, or nothing but whitespace after its last ||,
\* | or &&, or an odd number of backslashes at its end.
C23_IncompleteExactlyWhen ==
  ev.op \in {"isIncompleteInput", "hasIncompleteChars"}
    => returned = IF TrimsToEmpty(input) THEN FALSE
                  ELSE \/ CountChar(input, "'") % 2 = 1
                       \/ CountChar(input, "\"") % 2 = 1
                       \/ TrimsToEmpty(LastSegment(input))
                       \/ TrailingBackslashes(input) % 2 = 1

\* C24: a text has trailing whitespace exactly when its last character is a
\* space or a tab that no backslash precedes, a single space included and
\* whatever the lines before the last end in.
C24_TrailingWhitespaceExactlyWhen ==
  ev.op = "hasTailingWhitespace" => returned = EndsInBlank(input)

\* The last line break among the first n characters of a text (0: none).
LastBreak(text, n) ==
  LET breaks == {k \in 1..n : text[k] = NL}
  IN IF breaks = {} THEN 0 ELSE CHOOSE k \in breaks : \A j \in breaks : j <= k

\* Where a cursor is after the first offset characters of a text on a
\* terminal of cols columns: one row down for every line break and for every
\* character that fills its line's cols-th, 2 cols-th, ... column.
ClaimedColRow(text, offset, cols) ==
  LET breaks == {k \in 1..offset : text[k] = NL}
      wraps == {k \in 1..offset :
                  text[k] # NL /\ (k - LastBreak(text, k - 1)) % cols = 0}
  IN [row |-> Cardinality(breaks) + Cardinality(wraps),
      col |-> (offset - LastBreak(text, offset)) % cols]

\* C25: the row and column of an offset are those of a cursor advanced one
\* character at a time from row 0, column 0: a line break goes to column 0
\* of the next row, any other character one column on, and from column cols
\* to column 0 of the next row; so the column is below cols, and offset cols
\* of a line at least that long is row 1, column 0.
C25_AdvancesOneRowAtATime ==
  ev.op \in {"offsetToColRow", "getColRow", "getColRowVariant"}
    => /\ returned = ClaimedColRow(input, cursor, terminalSize.cols)
       /\ returned.col \in 0..(terminalSize.cols - 1)

\* C26: a text counts at least one display line, and a text without line
\* breaks whose printing characters number n > 0 counts
\* 1 + floor((n - 1) / cols) of them: one when n = cols.
C26_LinesOfAText ==
  ev.op \in {"countLines", "getLineCount"}
    => LET n == Len(StripAnsi(input))
       IN /\ returned >= 1
          /\ (n > 0 /\ \A i \in 1..Len(input) : input[i] # NL)
               => returned = 1 + ((n - 1) \div terminalSize.cols)

\* C27: escape sequences take no column: the lines a text counts and the
\* row and column of a cursor in it are those of the text without its
\* escape sequences, line breaks after them included.
C27_EscapesTakeNoColumn ==
  LET shown == StripAnsi(input)
      before == Len(StripAnsi(Substring(input, 0, cursor)))
  IN /\ ev.op = "countLines" => returned = countLines(shown, terminalSize.cols)
     /\ ev.op = "getLineCount" => returned = getLineCount(shown, terminalSize.cols)
     /\ ev.op = "promptCursor"
          => returned = offsetToColRow(shown, before, terminalSize.cols)

RECURSIVE EachBreak(_, _)
\* A text from its i-th character on, each line break of it (CR LF, CR or
\* LF) written as CR LF.
EachBreak(s, i) ==
  IF i > Len(s) THEN <<>>
  ELSE IF s[i] = CR /\ i < Len(s) /\ s[i + 1] = NL
       THEN <<CR, NL>> \o EachBreak(s, i + 2)
  ELSE IF s[i] \in {CR, NL} THEN <<CR, NL>> \o EachBreak(s, i + 1)
  ELSE <<s[i]>> \o EachBreak(s, i + 1)

\* C28: print writes the text with every line break, CR LF, CR or LF,
\* replaced by CR LF and everything else as it is: as many line breaks as
\* the text has, blank lines included, and no CR or LF on its own.
C28_PrintKeepsEveryBreak ==
  ev.op = "print"
    => /\ returned = EachBreak(input, 1)
       /\ \A i \in 1..Len(returned) :
            /\ returned[i] = NL => (i > 1 /\ returned[i - 1] = CR)
            /\ returned[i] = CR => (i < Len(returned) /\ returned[i + 1] = NL)

RECURSIVE RowsOf(_, _, _)
\* The items in rows of perRow, each item padded to width, each row ended
\* by a line break.
RowsOf(items, perRow, width) ==
  IF items = <<>> THEN <<>>
  ELSE LET n == Min(perRow, Len(items))
       IN Flatten([k \in 1..n |-> PadEnd(items[k], width)]) \o <<CR, NL>>
            \o RowsOf(SubSeq(items, n + 1, Len(items)), perRow, width)

\* C29: printlsInline prints every item of a list once, in order, in rows of
\* floor(columns / item width) items, of one item when that is 0; the item
\* width read as the widest item, padded or not.
C29_ColumnsPrintEveryItem ==
  (ev.op = "printlsInline" /\ strings # <<>>)
    => LET widest == MaxWidth(strings)
       IN /\ returned # Hangs
          /\ \E itemWidth \in {widest, widest + 3} \ {0} :
               returned = RowsOf(strings, Max(1, terminalSize.cols \div itemWidth),
                                 widest + 3)

\* C30: printWide returns, whatever the items and the width of the terminal,
\* having printed every item once, in order, in rows.
C30_WideTerminates ==
  ev.op = "printWide"
    => /\ returned # Hangs
       /\ strings # <<>>
            => \E perRow \in 1..Len(strings) :
                 returned = RowsOf(strings, perRow, MaxWidth(strings) + 2)

\* --------------------------------------------- claims: the editing keys

\* A line-read takes the units: the engine is active with a line-read pending
\* and no char-read before it.
Editing ==
  /\ Idle
  /\ active
  /\ activePrompt.kind = "line"
  /\ activePromptChar.kind = "null"

\* The units handleData inserts: short ones that start with a printable
\* character.
Printable ==
  {data \in Units : Len(data) <= 3 /\ data[1] # ESC /\ ~IsControl(data[1])}

\* C31: during a line-read a printable unit at cursor c changes the buffer to
\* old[0..c) + unit + old[c..) and the cursor to c + the unit's length.
C31_InsertsAtCursor ==
  Editing =>
    \A data \in Printable :
      LET m == handleTermData(Machine, data)
      IN /\ m.input = Substring(input, 0, cursor) \o data \o SubstringFrom(input, cursor)
         /\ m.cursor = cursor + Len(data)

\* The buffer without the character at index i, counted from 0.
Without(str, i) == Substring(str, 0, i) \o SubstringFrom(str, i + 1)

\* C32: during a line-read Backspace at cursor c > 0 removes the character at
\* index c - 1 and moves the cursor to c - 1, and at 0 changes neither buffer
\* nor cursor; delete-forward removes the character at index c and keeps the
\* cursor, and at the end of the buffer changes neither.
C32_ErasesOneCharacter ==
  Editing =>
    LET back == handleTermData(Machine, Backspace)
        fwd == handleTermData(Machine, Delete)
    IN /\ cursor > 0 => back.input = Without(input, cursor - 1)
                          /\ back.cursor = cursor - 1
       /\ cursor = 0 => back.input = input /\ back.cursor = 0
       /\ cursor < Len(input) => fwd.input = Without(input, cursor)
                                   /\ fwd.cursor = cursor
       /\ cursor = Len(input) => fwd.input = input /\ fwd.cursor = cursor

\* C33: during a line-read Up replaces the buffer with the entry at the
\* decremented browse index and Down with the entry at the incremented index,
\* or with the empty string when that index is the number of entries; the
\* cursor ends at the end of the new buffer.  Up with no entry changes neither
\* buffer nor cursor.
C33_BrowseReplacesBuffer ==
  Editing =>
    LET size == Len(history.items)
        prev == Max(0, history.index - 1)
        next == Min(size, history.index + 1)
        up == handleTermData(Machine, Up)
        down == handleTermData(Machine, Down)
    IN /\ size > 0 => up.input = history.items[prev + 1]
                        /\ up.cursor = Len(up.input)
                        /\ up.history.index = prev
       /\ size = 0 => up.input = input /\ up.cursor = cursor
       /\ down.input = (IF next < size THEN history.items[next + 1] ELSE <<>>)
       /\ down.cursor = Len(down.input)
       /\ down.history.index = next

\* C33 witness: the browse has recalled the second of two entries.
C33_Witness ==
  /\ Editing
  /\ ev.op = "data"
  /\ ev.rendered
  /\ Len(history.items) = 2
  /\ history.index = 1
  /\ input = history.items[2]
  /\ cursor = Len(input)

\* C34: a resize during a line-read caches the delivered size and leaves the
\* buffer, the cursor, the prompts, the history and the pending reads as they
\* were; it writes the clear of the old width, then the render of the new
\* width without a clear.
C34_ResizeKeepsTheLine ==
  (Idle /\ activePrompt.kind = "line") =>
    \A size \in Sizes :
      LET m == handleTermResize(Machine, size)
      IN /\ m.terminalSize = size
         /\ m.input = input
         /\ m.cursor = cursor
         /\ m.activePrompt = activePrompt
         /\ m.activePromptChar = activePromptChar
         /\ m.history = history
         /\ m.active = active
         /\ m.line = NoSettle
         /\ m.char = NoSettle
         /\ m.out = Clear(Machine).out
                      \o Render([Machine EXCEPT !.terminalSize = size], input, FALSE).out

\* C34 witness: a resize has delivered a width of three columns under a
\* prompt and a buffer that fill more than one row of it.
C34_Witness ==
  /\ Editing
  /\ ev.op = "resize"
  /\ terminalSize.cols = 3
  /\ Len(input) = 3
  /\ cursor = 3

RECURSIVE ErasedRows(_, _, _)
\* The rows of the terminal on which the written tokens erase, from cursor t.
ErasedRows(t, toks, width) ==
  IF toks = <<>> THEN {}
  ELSE (IF Head(toks) \in {EL, EL2} THEN {t.row} ELSE {})
         \cup ErasedRows(TermStep(t, Head(toks), width), Tail(toks), width)

\* The terminal's cursor after the prompt and the buffer are printed from the
\* start of row 0.
TextEnd ==
  TermWrite(TermHome, print(applyPrompts(activePrompt, input)), terminalSize.cols)

\* The rows the terminal shows the prompt and the buffer on, the first being
\* row 0, and with them the row a text that ends on the last column wraps to.
OccupiedRows == 0 .. TextEnd.row
WrappedRows == 0 .. (TextEnd.row + (IF TextEnd.wrap THEN 1 ELSE 0))

\* The last handler has rendered the line of a read that goes on.
Drawn ==
  /\ Editing
  /\ ev.rendered
  /\ ev.line = "none"
  /\ ev.char = "none"
  /\ ~ev.threw

\* C35: the clear of a render, written with the terminal's cursor where the
\* last render left it, erases every row the prompt and the
\* buffer occupy, no row above the first and no row below the last (the row a
\* full last row wraps to counted with them), and leaves the terminal's cursor
\* on the first row.
C35_ClearErasesOccupiedRows ==
  Drawn =>
    LET m == Clear(Machine)
        erased == ErasedRows(term, m.out, terminalSize.cols)
    IN /\ OccupiedRows \subseteq erased
       /\ erased \subseteq WrappedRows
       /\ m.term.row = 0

\* The greatest of a set of offsets, or none when the set is empty, and the
\* least likewise.
Greatest(offsets, none) ==
  IF offsets = {} THEN none ELSE CHOOSE w \in offsets : \A v \in offsets : v <= w
Least(offsets, none) ==
  IF offsets = {} THEN none ELSE CHOOSE w \in offsets : \A v \in offsets : w <= v

OneLine(text) == \A i \in 1..Len(text) : text[i] # NL /\ text[i] # ESC

\* C37: in a line longer than cols, offset cols is row 0, column cols, and
\* offset cols + 1 is row 1, column 0; accordingly a text of exactly cols
\* characters counts one line and one of twice cols characters ('abcdef' on 3
\* columns) two.
C37_WrapsAfterTheLastColumn ==
  LET cols == terminalSize.cols
  IN OneLine(input) =>
       /\ (ev.op \in {"getColRow", "offsetToColRow"} /\ Len(input) > cols)
            => /\ cursor = cols => returned = [row |-> 0, col |-> cols]
               /\ cursor = cols + 1 => returned = [row |-> 1, col |-> 0]
       /\ ev.op \in {"getLineCount", "countLines"}
            => /\ Len(input) = cols => returned = 1
               /\ Len(input) = 2 * cols => returned = 2

\* ------------------------------------------ claims: what the engine keeps

\* C38: in the options class, whose keys that move the cursor alone are
\* disabled, the cursor is at the end of the buffer after every unit, resize
\* and resume of a line-read.
C38_OptionsCursorAtEnd ==
  (variant = "options" /\ activePrompt.kind = "line") => cursor = Len(input)

\* C39: while the engine is idle (before the first read, after a line-read was
\* resolved or aborted) a resize changes the cached size and nothing else, and
\* writes nothing to the terminal.
C39_IdleResizeWritesNothing ==
  (Idle /\ ~active /\ activePrompt.kind = "null" /\ activePromptChar.kind = "null") =>
    \A size \in Sizes :
      LET m == handleTermResize(Machine, size)
      IN /\ m.out = <<>>
         /\ m = [Machine EXCEPT !.terminalSize = size]

\* C40: the buffer holds no control character but the line breaks of
\* continuation: no carriage return, tab, DEL or ESC, whatever the lengths of
\* the units delivered.
C40_NoControlStored ==
  \A i \in 1..Len(input) : IsControl(input[i]) => input[i] = NL

====
